---- MODULE Spec2Model ----
(***************************************************************************)
(* State-machine model of src/src/main.rs: a tide service with a JWT auth  *)
(* gate (extract_token_claims), a login / verify pair, and CRUD handlers   *)
(* over a Mutex<HashMap<String, User>>.                                    *)
(*                                                                         *)
(* Each request is served by one task.  A handler is cut into steps at its *)
(* .await points and at its wall-clock reads; the lock guard taken by      *)
(* `lock().await` is held until the handler returns.                       *)
(***************************************************************************)
EXTENDS Integers, Sequences, FiniteSets, TLC

\* ------------------------------------------------------------------ bounds
NProcs == 2          \* concurrent request tasks
MaxRequests == 4     \* requests served in one behaviour
MaxTicks == 3        \* wall-clock advances in one behaviour
MaxTokens == 1       \* successful logins in one behaviour
MaxUsers == 2        \* create_user requests that pass the gate in one behaviour

Procs == 1..NProcs

\* ------------------------------------------------------ program constants
TokenTTL == 86400    \* Duration::hours(24), in seconds (the unit of exp)
LeewaySecs == 60     \* Validation::new: default leeway of jsonwebtoken >= 8

\* The clock advances by the leeway or by the token lifetime.
TickSteps == {LeewaySecs, TokenTTL}

\* Validation::new(Algorithm::HS256).leeway: 0 in jsonwebtoken 7, 60 from 8 on.
\* The crate version is not pinned by the source, so either build is possible.
Leeways == {0, LeewaySecs}

jwt_secret == "your-secret-key-change-in-production"
OtherSecret == "some-other-secret"

None == "<none>"     \* Option::None of an Option<String>

\* CreateUserRequest bodies, and the fields an UpdateUserRequest may carry
CreateBodies == {<<"Ana", "a@x.com">>, <<"Bob", "b@x.com">>}
PatchNames == {None, "Cy"}
PatchEmails == {None, "c@x.com"}
Usernames == {"admin", "root"}
Passwords == {"admin123", "wrong"}

\* ------------------------------------------------------------ pure helpers
\* format!("user_{}", timestamp)
UserId(timestamp) == <<"user_", timestamp>>

\* DateTime::to_rfc3339 of a clock reading
to_rfc3339(t) == <<"rfc3339", t>>

\* A path id that create_user never generates.
GhostId == <<"ghost", 0>>

\* bcrypt::hash: a salted digest that binds the plaintext
hash(plaintext) == [wf |-> TRUE, salt |-> "salt", of |-> plaintext]

MalformedDigest == [wf |-> FALSE, salt |-> "", of |-> ""]

\* bcrypt::verify: Err on a malformed digest, else Ok(matches)
verify(password, digest) ==
    IF digest.wf THEN [ok |-> TRUE, val |-> digest.of = password]
    ELSE [ok |-> FALSE, val |-> FALSE]

\* Result<bool>::unwrap_or(false)
unwrap_or_false(r) == IF r.ok THEN r.val ELSE FALSE

\* ----------------------------------------------------------------- tokens
\* HMAC over header and payload: determined by the key and what was signed.
Sign(key, alg, username, exp) ==
    [key |-> key, alg |-> alg, username |-> username, exp |-> exp]

NoSig == [key |-> "", alg |-> "", username |-> "", exp |-> 0]

\* jsonwebtoken::encode(&Header::default(), &claims, &EncodingKey::from_secret(..))
encode(claims, key) ==
    [wf |-> TRUE, alg |-> "HS256", username |-> claims.username, exp |-> claims.exp,
     sig |-> Sign(key, "HS256", claims.username, claims.exp)]

\* A string that is not a three-part token.
GarbageToken == [wf |-> FALSE, alg |-> "", username |-> "", exp |-> 0, sig |-> NoSig]

NoClaims == [some |-> FALSE, username |-> "", exp |-> 0]

SomeClaims(username, exp) == [some |-> TRUE, username |-> username, exp |-> exp]

\* The signature check of decode.
SigSkipped(token, key) == TRUE

SigVerifies(token, key) ==
    token.sig = Sign(key, token.alg, token.username, token.exp)

\* The expiry check of decode's validate(): ExpiredSignature iff exp < now - leeway.
ExpIgnored(exp, now, lw) == TRUE

ExpAccepted(exp, now, lw) == ~(exp < now - lw)

\* jsonwebtoken::decode::<Claims>(token, &key, &Validation::new(HS256)).ok()
decode(token, key, now, lw) ==
    IF ~token.wf THEN NoClaims
    ELSE IF token.alg # "HS256" THEN NoClaims
    ELSE IF ~SigVerifies(token, key) THEN NoClaims
    ELSE IF ~ExpAccepted(token.exp, now, lw) THEN NoClaims
    ELSE SomeClaims(token.username, token.exp)

\* ---------------------------------------------------------------- headers
NoHeader == [present |-> FALSE, scheme |-> "", token |-> GarbageToken]

BasicHeader == [present |-> TRUE, scheme |-> "Basic", token |-> GarbageToken]

Bearer(token) == [present |-> TRUE, scheme |-> "Bearer", token |-> token]

\* req.header("Authorization")?, strip_prefix("Bearer ")?, decode(..).ok()?
extract_token_claims(header, now, lw) ==
    IF ~header.present THEN NoClaims
    ELSE IF header.scheme # "Bearer" THEN NoClaims
    ELSE decode(header.token, jwt_secret, now, lw)

\* ------------------------------------------------------------------ state
VARIABLES
    clock,       \* the wall clock, in seconds (SystemTime::now / Utc::now)
    ticks,       \* clock advances so far
    leeway,      \* Validation.leeway of the jsonwebtoken build
    users,       \* AppState.users: HashMap<String, User>
    admins,      \* AppState.admins: HashMap<String, Admin>
    usersLock,   \* holder of the users mutex, 0 when free
    adminsLock,  \* holder of the admins mutex, 0 when free
    pc,          \* position of each request task in its handler
    req,         \* the request each task serves
    loc,         \* handler locals: id and user of create_user
    resp,        \* the response each task returned
    issued,      \* tokens handed out by login, with their time of issue
    seenIds,     \* ids that were ever keys of users
    nreq         \* requests received so far

vars == <<clock, ticks, leeway, users, admins, usersLock, adminsLock,
          pc, req, loc, resp, issued, seenIds, nreq>>

\* ------------------------------------------------------- records and maps
NoUser == [id |-> GhostId, name |-> "", email |-> "", created_at |-> to_rfc3339(0)]

NoLoc == [id |-> GhostId, user |-> NoUser]

NoReq == [op |-> "none", header |-> NoHeader, id |-> GhostId, name |-> None,
          email |-> None, username |-> "", password |-> "", malformed |-> FALSE]

NoResp == [status |-> 0, body |-> [tag |-> "none"]]

ErrorBody(msg) == [tag |-> "error", error |-> msg]

MessageBody(msg) == [tag |-> "message", message |-> msg]

UserBody(user) == [tag |-> "user", user |-> user]

EmptyMap == [k \in {} |-> NoUser]

\* HashMap::insert: adds the key or replaces its value
insert(m, k, v) == [x \in DOMAIN m \cup {k} |-> IF x = k THEN v ELSE m[x]]

\* HashMap::remove
remove(m, k) == [x \in DOMAIN m \ {k} |-> m[x]]

\* A collection that holds every value twice.
values_twice(m) ==
    [u \in {m[k] : k \in DOMAIN m} |-> 2 * Cardinality({k \in DOMAIN m : m[k] = u})]

\* HashMap::values().cloned().collect(): every value once per key, order left open
values(m) ==
    [u \in {m[k] : k \in DOMAIN m} |-> Cardinality({k \in DOMAIN m : m[k] = u})]

\* The two `if let Some(..)` assignments of update_user.
apply_patch_replacing(user, name, email) ==
    [user EXCEPT !.name = name, !.email = email]

apply_patch(user, name, email) ==
    [user EXCEPT !.name = IF name # None THEN name ELSE @,
                 !.email = IF email # None THEN email ELSE @]

\* AppState::new
Init ==
    /\ clock = 0
    /\ ticks = 0
    /\ leeway \in Leeways
    /\ users = EmptyMap
    /\ admins = [u \in {"admin"} |->
                    [username |-> "admin", password_hash |-> hash("admin123"),
                     created_at |-> to_rfc3339(0)]]
    /\ usersLock = 0
    /\ adminsLock = 0
    /\ pc = [p \in Procs |-> "idle"]
    /\ req = [p \in Procs |-> NoReq]
    /\ loc = [p \in Procs |-> NoLoc]
    /\ resp = [p \in Procs |-> NoResp]
    /\ issued = {}
    /\ seenIds = {}
    /\ nreq = 0

\* ----------------------------------------------------------------- inputs
\* Tokens a client can present: the ones login issued, and tokens the service
\* never signed with HS256: a malformed string, an unsigned "none" token, one
\* signed with another secret, one signed as HS384, and issued tokens with a
\* changed expiry or a changed header.
ForgedExp == 10 * TokenTTL

IssuedTokens == {i.token : i \in issued}

ForgedTokens ==
    {GarbageToken,
     [wf |-> TRUE, alg |-> "none", username |-> "admin", exp |-> ForgedExp, sig |-> NoSig],
     encode([username |-> "admin", exp |-> ForgedExp], OtherSecret),
     [wf |-> TRUE, alg |-> "HS384", username |-> "admin", exp |-> ForgedExp,
      sig |-> Sign(jwt_secret, "HS384", "admin", ForgedExp)]}
    \cup {[t EXCEPT !.exp = ForgedExp] : t \in IssuedTokens}
    \cup {[t EXCEPT !.alg = "HS384"] : t \in IssuedTokens}

Headers == {NoHeader, BasicHeader} \cup {Bearer(t) : t \in IssuedTokens \cup ForgedTokens}

\* No header, or a token that login issued.
PlainHeaders == {NoHeader} \cup {Bearer(t) : t \in IssuedTokens}

\* The public routes are tried without a header, with a bad one and with issued tokens.
ReadHeaders == {NoHeader, Bearer(GarbageToken)} \cup {Bearer(t) : t \in IssuedTokens}

PathIds == seenIds \cup {GhostId}

Free(p) == pc[p] \in {"idle", "done"} /\ nreq < MaxRequests

\* A task takes up request r and moves to label l.
Take(p, r, l) ==
    /\ req' = [req EXCEPT ![p] = r]
    /\ pc' = [pc EXCEPT ![p] = l]
    /\ resp' = [resp EXCEPT ![p] = NoResp]
    /\ loc' = [loc EXCEPT ![p] = NoLoc]
    /\ nreq' = nreq + 1

\* A task returns response r.
Return(p, r) ==
    /\ resp' = [resp EXCEPT ![p] = r]
    /\ pc' = [pc EXCEPT ![p] = "done"]

\* `req.body_json().await?` on a body that does not deserialize: the handler
\* returns the error and tide answers 422 with an empty body.
Unprocessable == [status |-> 422, body |-> [tag |-> "none"]]

\* ------------------------------------------------------------------ clock
Tick(S) ==
    /\ ticks < MaxTicks
    /\ \E d \in S : clock' = clock + d
    /\ ticks' = ticks + 1
    /\ UNCHANGED <<leeway, users, admins, usersLock, adminsLock, pc, req, loc,
                   resp, issued, seenIds, nreq>>

\* ------------------------------------------------------------------ login
\* login, line 107: the body is parsed
login_recv(p) ==
    /\ Free(p)
    /\ Cardinality(issued) + Cardinality({q \in Procs : req[q].op = "login" /\ pc[q] # "done"}) < MaxTokens
    /\ \/ \E u \in Usernames, pw \in Passwords :
             Take(p, [NoReq EXCEPT !.op = "login", !.username = u, !.password = pw],
                  "login_lock")
       \/ /\ req' = [req EXCEPT ![p] = [NoReq EXCEPT !.op = "login", !.malformed = TRUE]]
          /\ loc' = [loc EXCEPT ![p] = NoLoc]
          /\ nreq' = nreq + 1
          /\ Return(p, Unprocessable)
    /\ UNCHANGED <<clock, ticks, leeway, users, admins, usersLock, adminsLock,
                   issued, seenIds>>

\* login, line 108: admins.lock().await
login_lock(p) ==
    /\ pc[p] = "login_lock"
    /\ adminsLock = 0
    /\ adminsLock' = p
    /\ pc' = [pc EXCEPT ![p] = "login_body"]
    /\ UNCHANGED <<clock, ticks, leeway, users, admins, usersLock, req, loc,
                   resp, issued, seenIds, nreq>>

\* The credential check of login, lines 110-111.
CredentialsOkAnyPassword(m, username, password) == username \in DOMAIN m

CredentialsOk(m, username, password) ==
    /\ username \in DOMAIN m
    /\ unwrap_or_false(verify(password, m[username].password_hash))

\* A login that stamps the identity it authenticated.
login_body_stamping(p) ==
    /\ pc[p] = "login_body"
    /\ adminsLock = p
    /\ IF CredentialsOk(admins, req[p].username, req[p].password)
       THEN LET expiration == clock + TokenTTL
                claims == [username |-> admins[req[p].username].username,
                           exp |-> expiration]
                token == encode(claims, jwt_secret)
            IN /\ Return(p, [status |-> 200,
                             body |-> [tag |-> "login", token |-> token,
                                       expires_in |-> to_rfc3339(expiration)]])
               /\ issued' = issued \cup
                     {[token |-> token, at |-> clock, username |-> req[p].username]}
               /\ admins' = [admins EXCEPT ![req[p].username].created_at =
                                                to_rfc3339(clock)]
       ELSE /\ Return(p, [status |-> 401, body |-> ErrorBody("Invalid credentials")])
            /\ UNCHANGED <<issued, admins>>
    /\ adminsLock' = 0
    /\ UNCHANGED <<clock, ticks, leeway, users, usersLock, req, loc,
                   seenIds, nreq>>

\* login, lines 110-141: check the credentials, issue a token or answer 401
login_body(p) ==
    /\ pc[p] = "login_body"
    /\ adminsLock = p
    /\ IF CredentialsOk(admins, req[p].username, req[p].password)
       THEN LET expiration == clock + TokenTTL
                claims == [username |-> admins[req[p].username].username,
                           exp |-> expiration]
                token == encode(claims, jwt_secret)
            IN /\ Return(p, [status |-> 200,
                             body |-> [tag |-> "login", token |-> token,
                                       expires_in |-> to_rfc3339(expiration)]])
               /\ issued' = issued \cup
                     {[token |-> token, at |-> clock, username |-> req[p].username]}
       ELSE /\ Return(p, [status |-> 401, body |-> ErrorBody("Invalid credentials")])
            /\ UNCHANGED issued
    /\ adminsLock' = 0
    /\ UNCHANGED <<clock, ticks, leeway, users, admins, usersLock, req, loc,
                   seenIds, nreq>>

\* verify_token, lines 145-160
InvalidTokenDetailed ==
    [status |-> 401, body |-> ErrorBody("Invalid token")]

\* The None arm of verify_token, lines 153-158.
InvalidToken ==
    [status |-> 401, body |-> ErrorBody("Invalid or expired token")]

verify_token(p, H) ==
    /\ Free(p)
    /\ \E h \in H :
          LET claims == extract_token_claims(h, clock, leeway)
          IN /\ req' = [req EXCEPT ![p] = [NoReq EXCEPT !.op = "verify", !.header = h]]
             /\ IF claims.some
                THEN Return(p, [status |-> 200,
                                body |-> [tag |-> "claims", claims |-> claims]])
                ELSE Return(p, InvalidToken)
    /\ loc' = [loc EXCEPT ![p] = NoLoc]
    /\ nreq' = nreq + 1
    /\ UNCHANGED <<clock, ticks, leeway, users, admins, usersLock, adminsLock,
                   issued, seenIds>>

\* --------------------------------------------------------------- the gate
Forbidden ==
    [status |-> 403, body |-> ErrorBody("Authentication required for this operation")]

Unauthorized ==
    [status |-> 401, body |-> ErrorBody("Authentication required for this operation")]

\* `if extract_token_claims(&req).await.is_none()` of a protected handler
GateOpen(header, now, lw) == TRUE

GatePasses(header, now, lw) == extract_token_claims(header, now, lw).some

\* The first step of a protected handler: 401 at once, 422 when the body
\* does not parse, or on to label l.
\* The body of a rejected request is never read (body_json comes after the gate).
\* R holds the requests with header h, one per body the client may send.
Gate(p, h, R, l) ==
    /\ loc' = [loc EXCEPT ![p] = NoLoc]
    /\ nreq' = nreq + 1
    /\ IF GatePasses(h, clock, leeway)
       THEN \E r \in R :
               /\ req' = [req EXCEPT ![p] = r]
               /\ IF r.malformed
                  THEN Return(p, Unprocessable)
                  ELSE /\ pc' = [pc EXCEPT ![p] = l]
                       /\ resp' = [resp EXCEPT ![p] = NoResp]
       ELSE /\ \E r \in {[x EXCEPT !.name = None, !.email = None,
                                    !.malformed = FALSE] : x \in R} :
                  req' = [req EXCEPT ![p] = r]
            /\ Return(p, Unauthorized)

\* ------------------------------------------------------------ create_user
\* create_user, lines 167-174: the gate, then the body is parsed
create_user_auth(p, H) ==
    /\ Free(p)
    /\ Cardinality(seenIds) + Cardinality({q \in Procs : req[q].op = "create" /\ pc[q] # "done"}) < MaxUsers
    /\ \E h \in H :
          Gate(p, h,
               {[NoReq EXCEPT !.op = "create", !.header = h, !.name = b[1], !.email = b[2]] :
                   b \in CreateBodies}
                  \cup {[NoReq EXCEPT !.op = "create", !.header = h, !.malformed = TRUE]},
               "create_ts")
    /\ UNCHANGED <<clock, ticks, leeway, users, admins, usersLock, adminsLock,
                   issued, seenIds>>

\* create_user, lines 176-180: the id is read off the clock
create_user_ts(p) ==
    /\ pc[p] = "create_ts"
    /\ loc' = [loc EXCEPT ![p].id = UserId(clock)]
    /\ pc' = [pc EXCEPT ![p] = "create_mk"]
    /\ UNCHANGED <<clock, ticks, leeway, users, admins, usersLock, adminsLock,
                   req, resp, issued, seenIds, nreq>>

\* create_user, lines 182-187: the record, with a second clock reading
create_user_mk(p) ==
    /\ pc[p] = "create_mk"
    /\ loc' = [loc EXCEPT ![p].user =
                  [id |-> loc[p].id, name |-> req[p].name, email |-> req[p].email,
                   created_at |-> to_rfc3339(clock)]]
    /\ pc' = [pc EXCEPT ![p] = "create_lock"]
    /\ UNCHANGED <<clock, ticks, leeway, users, admins, usersLock, adminsLock,
                   req, resp, issued, seenIds, nreq>>

\* lines 189, 211, 248, 270, 282: users.lock().await
LockUsersNoWait(p, from, to) ==
    /\ pc[p] = from
    /\ usersLock' = p
    /\ pc' = [pc EXCEPT ![p] = to]
    /\ UNCHANGED <<clock, ticks, leeway, users, admins, adminsLock, req, loc,
                   resp, issued, seenIds, nreq>>

LockUsers(p, from, to) ==
    /\ pc[p] = from
    /\ usersLock = 0
    /\ usersLock' = p
    /\ pc' = [pc EXCEPT ![p] = to]
    /\ UNCHANGED <<clock, ticks, leeway, users, admins, adminsLock, req, loc,
                   resp, issued, seenIds, nreq>>

create_user_lock(p) == LockUsers(p, "create_lock", "create_insert")

\* The map after create_user's line 190.
StoreCreatedIfAbsent(m, id, user) == IF id \in DOMAIN m THEN m ELSE insert(m, id, user)

StoreCreated(m, id, user) == insert(m, id, user)

\* create_user, lines 190-195: insert, answer 201, drop the guard
create_user_insert(p) ==
    /\ pc[p] = "create_insert"
    /\ usersLock = p
    /\ users' = StoreCreated(users, loc[p].id, loc[p].user)
    /\ seenIds' = seenIds \cup {loc[p].id}
    /\ Return(p, [status |-> 201, body |-> UserBody(loc[p].user)])
    /\ usersLock' = 0
    /\ UNCHANGED <<clock, ticks, leeway, admins, adminsLock, req, loc, issued, nreq>>

\* ------------------------------------------------------------ update_user
\* update_user, lines 201-209: the gate, then id and body are read
update_user_auth(p, H) ==
    /\ Free(p)
    /\ \E h \in H, id \in PathIds :
          Gate(p, h,
               {[NoReq EXCEPT !.op = "update", !.header = h, !.id = id,
                              !.name = n, !.email = e] :
                   n \in PatchNames, e \in PatchEmails}
                  \cup {[NoReq EXCEPT !.op = "update", !.header = h, !.id = id,
                                      !.malformed = TRUE]},
               "update_lock")
    /\ UNCHANGED <<clock, ticks, leeway, users, admins, usersLock, adminsLock,
                   issued, seenIds>>

update_user_lock(p) == LockUsers(p, "update_lock", "update_apply")

\* An update that inserts the record when the id is missing.
StoreUpdatedUpsert(m, id, name, email) ==
    IF id \in DOMAIN m
    THEN [m EXCEPT ![id] = apply_patch(m[id], name, email)]
    ELSE insert(m, id, [id |-> id, name |-> name, email |-> email,
                        created_at |-> to_rfc3339(0)])

\* An update that stores a whole record built from the request.
StoreUpdatedOverwriting(m, id, name, email) ==
    IF id \in DOMAIN m
    THEN [m EXCEPT ![id] = [id |-> id, name |-> name, email |-> email,
                            created_at |-> @.created_at]]
    ELSE m

\* The map after update_user's match on get_mut, lines 213-221.
StoreUpdated(m, id, name, email) ==
    IF id \in DOMAIN m THEN [m EXCEPT ![id] = apply_patch(m[id], name, email)] ELSE m

\* update_user, lines 213-233: patch in place or 404, drop the guard
update_user_apply(p) ==
    /\ pc[p] = "update_apply"
    /\ usersLock = p
    /\ users' = StoreUpdated(users, req[p].id, req[p].name, req[p].email)
    /\ IF req[p].id \in DOMAIN users
       THEN Return(p, [status |-> 200, body |-> UserBody(users'[req[p].id])])
       ELSE Return(p, [status |-> 404, body |-> ErrorBody("User not found")])
    /\ usersLock' = 0
    /\ UNCHANGED <<clock, ticks, leeway, admins, adminsLock, req, loc, issued,
                   seenIds, nreq>>

\* ------------------------------------------------------------ delete_user
\* delete_user, lines 239-246: the gate, then the id is read
delete_user_auth(p, H) ==
    /\ Free(p)
    /\ \E h \in H, id \in PathIds :
          Gate(p, h, {[NoReq EXCEPT !.op = "delete", !.header = h, !.id = id]},
               "delete_lock")
    /\ UNCHANGED <<clock, ticks, leeway, users, admins, usersLock, adminsLock,
                   issued, seenIds>>

delete_user_lock(p) == LockUsers(p, "delete_lock", "delete_apply")

\* The map after delete_user's users.remove, line 250.
StoreDeletedOthers(m, id) == [x \in DOMAIN m \cap {id} |-> m[x]]

StoreDeleted(m, id) == remove(m, id)

\* delete_user, lines 250-263: remove or 404, drop the guard
delete_user_apply(p) ==
    /\ pc[p] = "delete_apply"
    /\ usersLock = p
    /\ users' = StoreDeleted(users, req[p].id)
    /\ IF req[p].id \in DOMAIN users
       THEN Return(p, [status |-> 200, body |-> MessageBody("User deleted successfully")])
       ELSE Return(p, [status |-> 404, body |-> ErrorBody("User not found")])
    /\ usersLock' = 0
    /\ UNCHANGED <<clock, ticks, leeway, admins, adminsLock, req, loc, issued,
                   seenIds, nreq>>

\* ------------------------------------------------------------------ reads
\* get_all_users, line 269: the request arrives
get_all_users_recv(p, H) ==
    /\ Free(p)
    /\ \E h \in H : Take(p, [NoReq EXCEPT !.op = "list", !.header = h], "list_lock")
    /\ UNCHANGED <<clock, ticks, leeway, users, admins, usersLock, adminsLock,
                   issued, seenIds>>

get_all_users_lock(p) == LockUsers(p, "list_lock", "list_body")

\* The response get_all_users builds from the map, lines 271-276.
ListResponse(m, header) == [status |-> 200, body |-> [tag |-> "users", list |-> values(m)]]

\* A listing that returns with the guard still held.
get_all_users_body_holding(p) ==
    /\ pc[p] = "list_body"
    /\ usersLock = p
    /\ Return(p, ListResponse(users, req[p].header))
    /\ UNCHANGED <<clock, ticks, leeway, users, admins, usersLock, adminsLock,
                   req, loc, issued, seenIds, nreq>>

\* get_all_users, lines 271-276
get_all_users_body(p) ==
    /\ pc[p] = "list_body"
    /\ usersLock = p
    /\ Return(p, ListResponse(users, req[p].header))
    /\ usersLock' = 0
    /\ UNCHANGED <<clock, ticks, leeway, users, admins, adminsLock, req, loc,
                   issued, seenIds, nreq>>

\* get_user_by_id, line 281: the request arrives, the id is read
get_user_by_id_recv(p, H) ==
    /\ Free(p)
    /\ \E h \in H, id \in PathIds :
          Take(p, [NoReq EXCEPT !.op = "get", !.header = h, !.id = id], "get_lock")
    /\ UNCHANGED <<clock, ticks, leeway, users, admins, usersLock, adminsLock,
                   issued, seenIds>>

get_user_by_id_lock(p) == LockUsers(p, "get_lock", "get_body")

\* The response get_user_by_id builds from the map, lines 284-297.
GetResponseGated(m, header, id) ==
    IF ~GatePasses(header, clock, leeway) THEN Unauthorized
    ELSE IF id \in DOMAIN m
    THEN [status |-> 200, body |-> UserBody(m[id])]
    ELSE [status |-> 404, body |-> ErrorBody("User not found")]

GetResponse(m, header, id) ==
    IF id \in DOMAIN m
    THEN [status |-> 200, body |-> UserBody(m[id])]
    ELSE [status |-> 404, body |-> ErrorBody("User not found")]

\* get_user_by_id, lines 284-297
get_user_by_id_body(p) ==
    /\ pc[p] = "get_body"
    /\ usersLock = p
    /\ Return(p, GetResponse(users, req[p].header, req[p].id))
    /\ usersLock' = 0
    /\ UNCHANGED <<clock, ticks, leeway, users, admins, adminsLock, req, loc,
                   issued, seenIds, nreq>>

\* ------------------------------------------------------------ the machine
\* Concurrent tasks; clients present no header or a token that login issued;
\* the clock advances a second at a time.
Next ==
    \/ Tick({1})
    \/ \E p \in Procs :
          \/ login_recv(p)
          \/ login_lock(p)
          \/ login_body(p)
          \/ verify_token(p, PlainHeaders)
          \/ create_user_auth(p, PlainHeaders)
          \/ create_user_ts(p)
          \/ create_user_mk(p)
          \/ create_user_lock(p)
          \/ create_user_insert(p)
          \/ update_user_auth(p, PlainHeaders)
          \/ update_user_lock(p)
          \/ update_user_apply(p)
          \/ delete_user_auth(p, PlainHeaders)
          \/ delete_user_lock(p)
          \/ delete_user_apply(p)
          \/ get_all_users_recv(p, PlainHeaders)
          \/ get_all_users_lock(p)
          \/ get_all_users_body(p)
          \/ get_user_by_id_recv(p, PlainHeaders)
          \/ get_user_by_id_lock(p)
          \/ get_user_by_id_body(p)

Spec == Init /\ [][Next]_vars

\* One task at a time; clients present every kind of header; the clock
\* advances by the leeway or by the token lifetime.
NextSeq ==
    \/ Tick(TickSteps)
    \/ login_recv(1)
    \/ login_lock(1)
    \/ login_body(1)
    \/ verify_token(1, Headers)
    \/ create_user_auth(1, Headers)
    \/ create_user_ts(1)
    \/ create_user_mk(1)
    \/ create_user_lock(1)
    \/ create_user_insert(1)
    \/ update_user_auth(1, Headers)
    \/ update_user_lock(1)
    \/ update_user_apply(1)
    \/ delete_user_auth(1, Headers)
    \/ delete_user_lock(1)
    \/ delete_user_apply(1)
    \/ get_all_users_recv(1, ReadHeaders)
    \/ get_all_users_lock(1)
    \/ get_all_users_body(1)
    \/ get_user_by_id_recv(1, ReadHeaders)
    \/ get_user_by_id_lock(1)
    \/ get_user_by_id_body(1)

SpecSeq == Init /\ [][NextSeq]_vars

\* The steps of task p that wait for a lock.
Acquire(p) ==
    \/ login_lock(p)
    \/ create_user_lock(p)
    \/ update_user_lock(p)
    \/ delete_user_lock(p)
    \/ get_all_users_lock(p)
    \/ get_user_by_id_lock(p)

\* The steps of task p between taking a request and returning, locks aside.
Run(p) ==
    \/ login_body(p)
    \/ create_user_ts(p)
    \/ create_user_mk(p)
    \/ create_user_insert(p)
    \/ update_user_apply(p)
    \/ delete_user_apply(p)
    \/ get_all_users_body(p)
    \/ get_user_by_id_body(p)

\* The executor polls every task that can run; a task waiting on a Mutex is
\* woken when the guard is dropped and the lock does not starve a waiter.
Fairness == \A p \in Procs : WF_vars(Run(p)) /\ SF_vars(Acquire(p))

\* The concurrent tasks alone, within one reading of the clock.
NextFair ==
    \E p \in Procs :
          \/ login_recv(p)
          \/ login_lock(p)
          \/ login_body(p)
          \/ verify_token(p, PlainHeaders)
          \/ create_user_auth(p, PlainHeaders)
          \/ create_user_ts(p)
          \/ create_user_mk(p)
          \/ create_user_lock(p)
          \/ create_user_insert(p)
          \/ update_user_auth(p, PlainHeaders)
          \/ update_user_lock(p)
          \/ update_user_apply(p)
          \/ delete_user_auth(p, PlainHeaders)
          \/ delete_user_lock(p)
          \/ delete_user_apply(p)
          \/ get_all_users_recv(p, PlainHeaders)
          \/ get_all_users_lock(p)
          \/ get_all_users_body(p)
          \/ get_user_by_id_recv(p, PlainHeaders)
          \/ get_user_by_id_lock(p)
          \/ get_user_by_id_body(p)

\* The concurrent machine under fair scheduling.
SpecFair == Init /\ [][NextFair]_vars /\ Fairness

\* ================================================================= claims
GatedOps == {"create", "update", "delete"}

\* This step is task p taking up a new request.
TookRequest(p) ==
    /\ pc[p] \in {"idle", "done"}
    /\ nreq' = nreq + 1
    /\ <<pc'[p], req'[p], resp'[p]>> # <<pc[p], req[p], resp[p]>>

\* This step is task p returning from label l.
Returned(p, l) == pc[p] = l /\ pc'[p] = "done"

\* C1: a create, update or delete whose Authorization header is absent, is not
\* a Bearer header or carries a token that fails validation is answered 401 in
\* its first step and leaves the user store as it was, whether or not the
\* target id exists (never 404).
C1_RejectedBeforeStore ==
    [][\A p \in Procs :
          (/\ TookRequest(p)
           /\ req'[p].op \in GatedOps
           /\ ~extract_token_claims(req'[p].header, clock, leeway).some)
          => (/\ pc'[p] = "done"
              /\ resp'[p].status = 401
              /\ users' = users
              /\ usersLock' = usersLock)]_vars

\* C1 witness: a delete of a missing id and no valid token, answered 401 while
\* the store holds a record.
C1_Witness ==
    \E p \in Procs :
        /\ pc[p] = "done"
        /\ req[p].op = "delete"
        /\ req[p].id \notin DOMAIN users
        /\ req[p].header.present
        /\ resp[p].status = 401
        /\ DOMAIN users # {}

\* C2: the response of get_user_by_id and of get_all_users is the same for
\* every Authorization header (absent, invalid, expired, valid) as it is with
\* no header, and a read that returned was never answered 401.
C2_ReadsIgnoreAuth ==
    /\ \A h \in Headers :
          /\ ListResponse(users, h) = ListResponse(users, NoHeader)
          /\ \A id \in PathIds : GetResponse(users, h, id) = GetResponse(users, NoHeader, id)
    /\ \A p \in Procs :
          (pc[p] = "done" /\ req[p].op \in {"get", "list"}) => resp[p].status \in {200, 404}

\* C2 witness: a get with a header that fails validation returned a record.
C2_Witness ==
    \E p \in Procs :
        /\ pc[p] = "done"
        /\ req[p].op = "get"
        /\ ~extract_token_claims(req[p].header, clock, leeway).some
        /\ resp[p].status = 200

\* C3: a token whose expires_at is less than or equal to the time of validation
\* is rejected by verify_token and by every gated operation.
C3_ExpiredRejected ==
    [][\A p \in Procs :
          (/\ TookRequest(p)
           /\ req'[p].op \in GatedOps \cup {"verify"}
           /\ req'[p].header.token.exp <= clock)
          => resp'[p].status = 401]_vars

\* The token's signature is the HS256 signature of its payload under jwt_secret.
SignedByService(token) ==
    /\ token.wf
    /\ token.alg = "HS256"
    /\ token.sig = Sign(jwt_secret, "HS256", token.username, token.exp)

\* C4: a request whose token is not signed by the service (tampered, signed
\* with another secret, or declaring another algorithm) is answered 401 by
\* verify_token and by every gated operation, and the store is left as it was.
C4_BadSignatureRejected ==
    [][\A p \in Procs :
          (/\ TookRequest(p)
           /\ req'[p].op \in GatedOps \cup {"verify"}
           /\ ~SignedByService(req'[p].header.token))
          => (/\ pc'[p] = "done"
              /\ resp'[p].status = 401
              /\ users' = users)]_vars

\* C4 witness: a gated request carrying an issued token with a changed payload
\* was answered 401.
C4_Witness ==
    \E p \in Procs :
        /\ pc[p] = "done"
        /\ req[p].op \in GatedOps
        /\ req[p].header.scheme = "Bearer"
        /\ req[p].header.token.sig.key = jwt_secret
        /\ req[p].header.token.exp # req[p].header.token.sig.exp
        /\ resp[p].status = 401

\* The tolerance after the 24 hours within which a token may still be honored.
Epsilon == LeewaySecs

\* C5: login with the admin credentials returns 200 and a token; that token
\* validates with subject = the login username at every time up to 24 hours
\* after issue, and fails validation at every time later than 24 hours plus
\* Epsilon after issue.
C5_TokenLifetime ==
    /\ \A p \in Procs :
          (pc[p] = "done" /\ req[p].op = "login"
              /\ req[p].username = "admin" /\ req[p].password = "admin123")
          => (/\ resp[p].status = 200
              /\ \E i \in issued : i.token = resp[p].body.token /\ i.username = "admin")
    /\ \A i \in issued :
          LET c == extract_token_claims(Bearer(i.token), clock, leeway)
          IN /\ clock <= i.at + TokenTTL => (c.some /\ c.username = i.username)
             /\ clock > i.at + TokenTTL + Epsilon => ~c.some

\* C5 witness: verify_token refused an issued token later than 24 hours plus
\* Epsilon after its issue.
C5_Witness ==
    \E p \in Procs, i \in issued :
        /\ pc[p] = "done"
        /\ req[p].op = "verify"
        /\ req[p].header = Bearer(i.token)
        /\ resp[p].status = 401
        /\ clock > i.at + TokenTTL + Epsilon

\* C5 witness: verify_token honored an issued token exactly 24 hours after issue.
C5_WitnessValid ==
    \E p \in Procs, i \in issued :
        /\ pc[p] = "done"
        /\ req[p].op = "verify"
        /\ req[p].header = Bearer(i.token)
        /\ resp[p].status = 200
        /\ resp[p].body.claims.username = "admin"
        /\ clock = i.at + TokenTTL

\* C6: a login whose username is unknown, or whose password does not verify
\* against the stored hash (a malformed digest included), is answered 401
\* {error: "Invalid credentials"}, the same in both cases; no token is issued
\* and neither store changes.
C6_LoginFailure ==
    [][/\ \A pw \in Passwords :
             ~CredentialsOk([u \in {"admin"} |->
                                [admins["admin"] EXCEPT !.password_hash = MalformedDigest]],
                            "admin", pw)
       /\ \A p \in Procs :
             (/\ Returned(p, "login_body")
              /\ \/ req[p].username \notin DOMAIN admins
                 \/ admins[req[p].username].password_hash.of # req[p].password)
             => (/\ resp'[p] = [status |-> 401, body |-> ErrorBody("Invalid credentials")]
                 /\ issued' = issued
                 /\ users' = users
                 /\ admins' = admins)]_vars

\* C6 witness: a login as admin with a wrong password was answered 401.
C6_Witness ==
    \E p \in Procs :
        /\ pc[p] = "done"
        /\ req[p].op = "login"
        /\ req[p].username = "admin"
        /\ req[p].password # "admin123"
        /\ resp[p].status = 401

\* p and q are two creates that both returned 201.
BothCreated(p, q) ==
    /\ p # q
    /\ pc[p] = "done" /\ req[p].op = "create" /\ resp[p].status = 201
    /\ pc[q] = "done" /\ req[q].op = "create" /\ resp[q].status = 201

\* C7: creates that returned 201 to parallel callers returned pairwise distinct
\* ids, and as long as no id has left the store each returned id is still a
\* key of it (no create overwrote the record of another).
C7_DistinctIds ==
    \A p \in Procs, q \in Procs :
        BothCreated(p, q)
        => /\ resp[p].body.user.id # resp[q].body.user.id
           /\ (seenIds = DOMAIN users) => users[resp[p].body.user.id].created_at
                                              = resp[p].body.user.created_at

\* The ids create_user can have generated so far.
GeneratedIds == {UserId(t) : t \in 0..clock}

\* C8: when create_user returns 201 with record R, a get_user_by_id(R.id) on
\* the store it leaves returns 200 with R, whatever header the get carries;
\* R.id is read off the clock, R.name and R.email are the request's.
C8_GetAfterCreate ==
    [][\A p \in Procs :
          Returned(p, "create_insert")
          => LET R == resp'[p].body.user
             IN /\ resp'[p].status = 201
                /\ resp'[p].body.tag = "user"
                /\ \A h \in ReadHeaders :
                      GetResponse(users', h, R.id) = [status |-> 200, body |-> UserBody(R)]
                /\ R.id \in GeneratedIds
                /\ R.name = req[p].name /\ R.email = req[p].email]_vars

\* C8 witness: a create returned 201 with a record the store holds under its id.
C8_Witness ==
    \E p \in Procs :
        /\ pc[p] = "done"
        /\ req[p].op = "create"
        /\ resp[p].status = 201
        /\ resp[p].body.user.id \in DOMAIN users
        /\ users[resp[p].body.user.id] = resp[p].body.user

\* C9: an update_user past the gate, on an existing id, returns 200 and sets
\* exactly the fields present in the patch of that record; its id, created_at,
\* the absent fields and every other record stay as they were.  On a missing
\* id it returns 404 and the store is unchanged.
C9_UpdateFrame ==
    [][\A p \in Procs :
          Returned(p, "update_apply")
          => LET id == req[p].id
             IN IF id \in DOMAIN users
                THEN /\ resp'[p] = [status |-> 200, body |-> UserBody(users'[id])]
                     /\ DOMAIN users' = DOMAIN users
                     /\ \A k \in DOMAIN users \ {id} : users'[k] = users[k]
                     /\ users'[id].id = users[id].id
                     /\ users'[id].created_at = users[id].created_at
                     /\ users'[id].name =
                           (IF req[p].name = None THEN users[id].name ELSE req[p].name)
                     /\ users'[id].email =
                           (IF req[p].email = None THEN users[id].email ELSE req[p].email)
                ELSE /\ resp'[p].status = 404
                     /\ users' = users]_vars

\* C9 witness: an update carrying only a name returned 200 while the store
\* held a second record.
C9_Witness ==
    \E p \in Procs :
        /\ pc[p] = "done"
        /\ req[p].op = "update"
        /\ req[p].name # None
        /\ req[p].email = None
        /\ resp[p].status = 200
        /\ Cardinality(DOMAIN users) >= 2

\* C9 witness: an update of a missing id returned 404.
C9_WitnessMissing ==
    \E p \in Procs :
        /\ pc[p] = "done"
        /\ req[p].op = "update"
        /\ resp[p].status = 404

\* C10: a delete_user past the gate, on an existing id, returns 200 and removes
\* that record only, so that get_user_by_id(id) is 404; on a missing (or
\* already deleted) id it returns 404 and the store is unchanged.  An id that
\* is not in the store enters it only by a create_user insert of that id.
C10_DeleteThenGet ==
    [][/\ \A p \in Procs :
             Returned(p, "delete_apply")
             => LET id == req[p].id
                IN IF id \in DOMAIN users
                   THEN /\ resp'[p].status = 200
                        /\ DOMAIN users' = DOMAIN users \ {id}
                        /\ \A k \in DOMAIN users' : users'[k] = users[k]
                        /\ \A h \in ReadHeaders : GetResponse(users', h, id).status = 404
                   ELSE /\ resp'[p].status = 404
                        /\ users' = users
       /\ \A id \in DOMAIN users' \ DOMAIN users :
             \E p \in Procs : Returned(p, "create_insert") /\ loc[p].id = id]_vars

\* C10 witness: a delete of an id that had been deleted before returned 404.
C10_Witness ==
    \E p \in Procs :
        /\ pc[p] = "done"
        /\ req[p].op = "delete"
        /\ req[p].id \in seenIds
        /\ req[p].id \notin DOMAIN users
        /\ resp[p].status = 404

\* C10 witness: a get of a deleted id returned 404 after its delete returned 200.
C10_WitnessGet ==
    \E p \in Procs, q \in Procs :
        /\ pc[p] = "done" /\ req[p].op = "delete" /\ resp[p].status = 200
        /\ pc[q] = "done" /\ req[q].op = "get" /\ req[q].id = req[p].id
        /\ resp[q].status = 404

\* The labels at which a handler holds the users lock, those at which it
\* writes the map, and those at which it waits for the lock.
UsersSection == {"create_insert", "update_apply", "delete_apply", "list_body", "get_body"}

UsersWrites == {"create_insert", "update_apply", "delete_apply"}

UsersWaits == {"create_lock", "update_lock", "delete_lock", "list_lock", "get_lock"}

\* C11: at most one handler is between users.lock() and its return, and it is
\* the holder of the lock; the map changes only in the single step in which
\* the holder of the lock returns from a create, update or delete, and in no
\* step while another handler holds the lock; a get or list answers from the
\* map as it is when it holds the lock, so it observes every write released
\* before.
C11_Linearized ==
    [][/\ Cardinality({p \in Procs : pc'[p] \in UsersSection}) <= 1
       /\ \A p \in Procs : pc'[p] \in UsersSection => usersLock' = p
       /\ users' # users =>
             \E p \in Procs :
                /\ usersLock = p
                /\ pc[p] \in UsersWrites
                /\ pc'[p] = "done"
                /\ \A q \in Procs \ {p} : pc'[q] = pc[q]
       /\ \A p \in Procs :
             (pc[p] \in UsersSection /\ pc'[p] = pc[p]) => users' = users
       /\ \A p \in Procs :
             Returned(p, "get_body") =>
                /\ usersLock = p
                /\ resp'[p] = (IF req[p].id \in DOMAIN users
                               THEN [status |-> 200, body |-> UserBody(users[req[p].id])]
                               ELSE [status |-> 404, body |-> ErrorBody("User not found")])
       /\ \A p \in Procs :
             Returned(p, "list_body") =>
                /\ usersLock = p
                /\ DOMAIN resp'[p].body.list = {users[k] : k \in DOMAIN users}]_vars

\* C11 witness: a get waits for the users lock while an update holds it.
C11_Witness ==
    \E p \in Procs, q \in Procs :
        /\ usersLock = p
        /\ pc[p] = "update_apply"
        /\ req[p].id \in DOMAIN users
        /\ pc[q] = "get_lock"
        /\ req[q].id = req[p].id

\* The label a gated handler moves to from label l.
NextLabel(l) ==
    CASE l = "create_ts" -> "create_mk"
      [] l = "create_mk" -> "create_lock"
      [] l = "create_lock" -> "create_insert"
      [] l = "update_lock" -> "update_apply"
      [] l = "delete_lock" -> "delete_apply"
      [] OTHER -> "done"

FirstLabel(op) ==
    CASE op = "create" -> "create_ts"
      [] op = "update" -> "update_lock"
      [] OTHER -> "delete_lock"

\* One step of task p seen against the gate's state machine.  With
\* bodyErrors the machine has one more terminal state: a create or update
\* whose token is valid and whose body does not parse ends 422 in its first
\* step.
GateMachineStep(p, bodyErrors) ==
    /\ (TookRequest(p) /\ req'[p].op \in GatedOps) =>
          IF ~req'[p].header.present \/ req'[p].header.scheme # "Bearer"
          THEN pc'[p] = "done" /\ resp'[p].status = 401
          ELSE IF ~extract_token_claims(req'[p].header, clock, leeway).some
          THEN pc'[p] = "done" /\ resp'[p].status = 401
          ELSE IF bodyErrors /\ req'[p].malformed
          THEN /\ req'[p].op \in {"create", "update"}
               /\ pc'[p] = "done"
               /\ resp'[p].status = 422
               /\ users' = users
          ELSE pc'[p] = FirstLabel(req'[p].op) /\ resp'[p] = NoResp
    /\ (req[p].op \in GatedOps /\ pc[p] \notin {"idle", "done"} /\ pc'[p] # pc[p]) =>
          /\ pc'[p] = NextLabel(pc[p])
          /\ req'[p] = req[p]
          /\ pc'[p] = "done" =>
                resp'[p].status =
                   (IF req[p].op = "create" THEN 201
                    ELSE IF req[p].id \in DOMAIN users THEN 200 ELSE 404)
    /\ (req'[p].op \in GatedOps /\ pc'[p] = "done") =>
          resp'[p].status \in {401, 200, 201, 404} \cup (IF bodyErrors THEN {422} ELSE {})
    /\ (req'[p].op \in GatedOps
          /\ (pc'[p] \notin {"idle", "done"} \/ resp'[p].status \in {200, 201, 404, 422})) =>
          /\ req'[p].header.scheme = "Bearer"
          /\ SignedByService(req'[p].header.token)

\* C12 as stated: a mutating request with no bearer token is rejected (401) at
\* once; with a bearer token it is rejected (401) at once if the token is
\* invalid and else proceeds through its handler to exactly one of Applied
\* (201 for create, 200 for update and delete) or NotFound (404, only for an
\* update or delete whose id is missing); a request that returned has one of
\* these statuses and no other.
C12_GateStateMachine == [][\A p \in Procs : GateMachineStep(p, FALSE)]_vars

\* C12 amended: as above, with one more terminal state: a create or update
\* that passed the gate with a body that does not parse ends 422 at once and
\* leaves the store as it was.  A request that is past the gate, Applied,
\* NotFound or 422 carries a token the service signed.
C12_GateStateMachineOrBadBody == [][\A p \in Procs : GateMachineStep(p, TRUE)]_vars

\* C12 witness: a delete with a valid token ended NotFound.
C12_Witness ==
    \E p \in Procs :
        /\ pc[p] = "done"
        /\ req[p].op = "delete"
        /\ SignedByService(req[p].header.token)
        /\ resp[p].status = 404

\* A create with a valid token and a body that does not parse ended 422.
C12_WitnessBadBody ==
    \E p \in Procs :
        /\ pc[p] = "done"
        /\ req[p].op = "create"
        /\ req[p].malformed
        /\ SignedByService(req[p].header.token)
        /\ resp[p].status = 422

\* The steps of extract_token_claims that fail on this header.
FailureModes(header, now, lw) ==
    {m \in {"no header", "not bearer", "malformed", "bad signature", "expired"} :
        \/ m = "no header" /\ ~header.present
        \/ m = "not bearer" /\ header.present /\ header.scheme # "Bearer"
        \/ /\ header.present
           /\ header.scheme = "Bearer"
           /\ \/ m = "malformed" /\ ~header.token.wf
              \/ m = "bad signature" /\ header.token.wf /\ ~SignedByService(header.token)
              \/ /\ m = "expired"
                 /\ SignedByService(header.token)
                 /\ header.token.exp < now - lw}

\* The one rejection of each endpoint behind extract_token_claims.
RejectionOf(op) ==
    [status |-> 401,
     body |-> [tag |-> "error",
               error |-> IF op = "verify" THEN "Invalid or expired token"
                         ELSE "Authentication required for this operation"]]

\* C13: a request to create, update, delete or /auth/verify whose header
\* fails in any way (absent, not Bearer, malformed token, bad signature,
\* expired) is answered in its first step with status 401 and the one fixed
\* body of its endpoint, whichever step failed; a header that fails in no way
\* is not answered so.
C13_UniformRejection ==
    [][\A p \in Procs :
          (TookRequest(p) /\ req'[p].op \in GatedOps \cup {"verify"}) =>
             IF FailureModes(req'[p].header, clock, leeway) # {}
             THEN pc'[p] = "done" /\ resp'[p] = RejectionOf(req'[p].op)
             ELSE resp'[p] # RejectionOf(req'[p].op)]_vars

\* C13 witness: a protected request with an expired token of the service was
\* answered with the endpoint's rejection.
C13_Witness ==
    \E p \in Procs :
        /\ pc[p] = "done"
        /\ req[p].op \in GatedOps
        /\ FailureModes(req[p].header, clock, leeway) = {"expired"}
        /\ resp[p] = RejectionOf(req[p].op)

\* C14: in every reachable state the credential store holds exactly the
\* identity "admin", with the hash of the default password and the created_at
\* written at startup.
C14_AdminsImmutable ==
    /\ DOMAIN admins = {"admin"}
    /\ admins["admin"].username = "admin"
    /\ admins["admin"].password_hash = hash("admin123")
    /\ admins["admin"].created_at = to_rfc3339(0)

\* C14 witness: time has passed, a login succeeded and a user was created
\* with its token.
C14_Witness ==
    /\ clock > 0
    /\ users # EmptyMap
    /\ \E p \in Procs :
          /\ pc[p] = "done"
          /\ req[p].op = "login"
          /\ resp[p].status = 200

\* Task p's finished request is an update of id that returned 200 with the
\* record the store still holds.
UpdateInPlace(p, id) ==
    /\ pc[p] = "done"
    /\ req[p].op = "update"
    /\ req[p].id = id
    /\ resp[p].status = 200
    /\ id \in DOMAIN users
    /\ users[id] = resp[p].body.user

\* The patches of p and q are a name alone and an email alone, either way round.
Complementary(p, q) ==
    \/ req[p].name # None /\ req[p].email = None /\ req[q].name = None /\ req[q].email # None
    \/ req[p].name = None /\ req[p].email # None /\ req[q].name # None /\ req[q].email = None

\* C15: when an update of task q is applied to a record that still is as the
\* update of task p left it, one of the two carrying only a name and the other
\* only an email, the stored record and the record q returns with 200 carry
\* both the new name and the new email; no interleaving of the two loses one.
C15_NoLostUpdate ==
    [][\A p \in Procs : \A q \in Procs \ {p} :
          (/\ Returned(q, "update_apply")
           /\ UpdateInPlace(p, req[q].id)
           /\ Complementary(p, q))
          => LET id == req[q].id
                 name == IF req[p].name # None THEN req[p].name ELSE req[q].name
                 email == IF req[p].email # None THEN req[p].email ELSE req[q].email
             IN /\ users'[id].name = name
                /\ users'[id].email = email
                /\ resp'[q].status = 200
                /\ resp'[q].body.user = users'[id]
                /\ resp'[q].body.user.name = name
                /\ resp'[q].body.user.email = email]_vars

\* C15 witness: a name-only and an email-only update of one id both returned
\* 200 and the record carries both.
C15_Witness ==
    \E p \in Procs : \E q \in Procs \ {p} :
        /\ UpdateInPlace(q, req[p].id)
        /\ pc[p] = "done"
        /\ req[p].op = "update"
        /\ resp[p].status = 200
        /\ Complementary(p, q)
        /\ users[req[p].id].name \in {req[p].name, req[q].name} \ {None}
        /\ users[req[p].id].email \in {req[p].email, req[q].email} \ {None}

\* The two updates in flight together: p holds the lock, q waits for it.
C15_WitnessRace ==
    \E p \in Procs : \E q \in Procs \ {p} :
        /\ pc[p] = "update_apply"
        /\ pc[q] = "update_lock"
        /\ req[p].id = req[q].id
        /\ req[p].id \in DOMAIN users
        /\ Complementary(p, q)

\* C16: after every step each record of the user store sits under the key
\* equal to its id; the key set changes only when a create returns 201 (it
\* gains exactly the generated id) or a delete of a present id returns 200 (it
\* loses exactly that id); an update never changes the key set: on a present
\* id it returns 200, on a missing one, deleted or never created, it returns
\* 404 and leaves the store as it was.
C16_KeysAreIds ==
    [][/\ \A k \in DOMAIN users' : users'[k].id = k
       /\ DOMAIN users' # DOMAIN users =>
             \E p \in Procs :
                \/ /\ Returned(p, "create_insert")
                   /\ resp'[p].status = 201
                   /\ resp'[p].body.user.id = loc[p].id
                   /\ DOMAIN users' = DOMAIN users \cup {loc[p].id}
                \/ /\ Returned(p, "delete_apply")
                   /\ resp'[p].status = 200
                   /\ req[p].id \in DOMAIN users
                   /\ DOMAIN users' = DOMAIN users \ {req[p].id}
       /\ \A p \in Procs :
             Returned(p, "update_apply") =>
                /\ DOMAIN users' = DOMAIN users
                /\ IF req[p].id \in DOMAIN users
                   THEN resp'[p].status = 200
                   ELSE resp'[p].status = 404 /\ users' = users]_vars

\* C16 witness: a delete of an id returned 200 and an update of the same id
\* returned 404; the id is not in the store.
C16_Witness ==
    \E p \in Procs : \E q \in Procs \ {p} :
        /\ pc[p] = "done" /\ req[p].op = "delete" /\ resp[p].status = 200
        /\ pc[q] = "done" /\ req[q].op = "update" /\ resp[q].status = 404
        /\ req[q].id = req[p].id
        /\ req[p].id \in seenIds
        /\ req[p].id \notin DOMAIN users

\* The race itself: the delete holds the lock, the update of the same id waits.
C16_WitnessRace ==
    \E p \in Procs : \E q \in Procs \ {p} :
        /\ pc[p] = "delete_apply"
        /\ pc[q] = "update_lock"
        /\ req[q].id = req[p].id
        /\ req[p].id \in DOMAIN users

\* Who holds which lock, by place in the handler: the users lock is held
\* exactly by the task inside a users section and the admins lock exactly by
\* the task inside login's; a task that is idle or has returned holds none.
LockDiscipline ==
    /\ usersLock \in 0..NProcs
    /\ adminsLock \in 0..NProcs
    /\ \A p \in Procs :
          /\ usersLock = p <=> pc[p] \in UsersSection
          /\ adminsLock = p <=> pc[p] = "login_body"
          /\ pc[p] \in UsersWaits \cup UsersSection =>
                req[p].op \in {"create", "update", "delete", "list", "get"}
          /\ pc[p] \in {"login_lock", "login_body"} => req[p].op = "login"
          /\ ~(usersLock = p /\ adminsLock = p)

\* C17: a handler holds at most one lock, the one of its store, and none
\* once it has returned; under fair scheduling every task that waits for a
\* lock gets it, and every request that was taken up is answered.
C17_LocksReleased ==
    /\ []LockDiscipline
    /\ \A p \in Procs :
          /\ (pc[p] \in UsersWaits) ~> (usersLock = p)
          /\ (pc[p] = "login_lock") ~> (adminsLock = p)
          /\ (pc[p] \notin {"idle", "done"}) ~> (pc[p] = "done" /\ resp[p] # NoResp)

\* C17 witness: a task waits for the users lock that another task holds.
C17_Witness ==
    \E p \in Procs : \E q \in Procs \ {p} :
        /\ pc[p] \in UsersWaits
        /\ usersLock = q
        /\ pc[q] \in UsersSection

ReadOps == {"login", "verify", "list", "get"}

\* This step is a step of task p.
StepOf(p) == <<pc'[p], req'[p], resp'[p], loc'[p]>> # <<pc[p], req[p], resp[p], loc[p]>>

\* C18: no step of a login, verify_token, get_all_users or get_user_by_id,
\* answered 200, 401, 404 or 422, changes the user store; the store changes
\* only in the last step of a create, update or delete.  get_all_users
\* answers 200 with the records of the store at that moment: every record of
\* the store once, and nothing that is not in the store.
C18_ReadsLeaveStore ==
    [][/\ \A p \in Procs : (StepOf(p) /\ req'[p].op \in ReadOps) => users' = users
       /\ users' # users =>
             \E p \in Procs : req[p].op \in GatedOps /\ pc[p] \in UsersWrites /\ pc'[p] = "done"
       /\ \A p \in Procs :
             Returned(p, "list_body") =>
                LET list == resp'[p].body.list
                IN /\ req[p].op = "list"
                   /\ resp'[p].status = 200
                   /\ resp'[p].body.tag = "users"
                   /\ \A k \in DOMAIN users : users[k] \in DOMAIN list
                   /\ \A r \in DOMAIN list :
                         /\ list[r] = 1
                         /\ r.id \in DOMAIN users
                         /\ users[r.id] = r]_vars

\* C18 witness: a listing returned two records, the ones the store holds.
C18_Witness ==
    \E p \in Procs :
        /\ pc[p] = "done"
        /\ req[p].op = "list"
        /\ resp[p].status = 200
        /\ Cardinality(DOMAIN resp[p].body.list) = 2
        /\ DOMAIN resp[p].body.list = {users[k] : k \in DOMAIN users}

\* A listing after a delete: the deleted record is not in it.
C18_WitnessAfterDelete ==
    \E p \in Procs : \E q \in Procs \ {p} :
        /\ pc[p] = "done" /\ req[p].op = "list" /\ resp[p].status = 200
        /\ pc[q] = "done" /\ req[q].op = "delete" /\ resp[q].status = 200
        /\ DOMAIN resp[p].body.list = {}
        /\ users = EmptyMap

====
